---- MODULE Spec2Model ----
(***************************************************************************)
(* Artist-name normalisation and metadata update of the jellyfin scripts:  *)
(*   src/jellyfin/format-music-file-metadata.py  (music files + sidecars)  *)
(*   src/jellyfin/format-metadata.py             (sidecars, genres)        *)
(*   src/jellyfin/format-show-titles.py          (episode renamer)         *)
(* Text is a sequence of one-character strings.                            *)
(***************************************************************************)
EXTENDS Integers, Sequences, FiniteSets, TLC

\* ------------------------------------------------------------------ bounds
\* Longest credit of the parser specification, in space-joined words.
MaxWords == 4

\* ------------------------------------------------------------------- text
\* Python's None, a value no text equals.
None == <<"None">>

\* The characters str.isspace() and the regex class \s accept.
Whitespace == {" ", "\t"}

IsSpace(c) == c \in Whitespace

\* re.IGNORECASE folds letter case before comparing.
Lower(c) ==
  CASE c = "A" -> "a"
    [] c = "N" -> "n"
    [] c = "D" -> "d"
    [] c = "F" -> "f"
    [] c = "T" -> "t"
    [] c = "M" -> "m"
    [] c = "P" -> "p"
    [] c = "R" -> "r"
    [] OTHER -> c

\* str.upper() of one character.
Upper(c) ==
  CASE c = "m" -> "M"
    [] c = "p" -> "P"
    [] c = "r" -> "R"
    [] OTHER -> c

\* First index >= i of s that holds no whitespace (Len(s)+1 when none):
\* the end of a greedy \s+ or \s* run starting at i.
RECURSIVE SkipSpace(_, _)
SkipSpace(s, i) ==
  IF i <= Len(s) /\ IsSpace(s[i]) THEN SkipSpace(s, i + 1) ELSE i

\* The literal tok at index j of s, letter case folded when ic.
LiteralAt(s, j, tok, ic) ==
  /\ j + Len(tok) - 1 <= Len(s)
  /\ \A k \in 1..Len(tok) :
       IF ic THEN Lower(s[j + k - 1]) = Lower(tok[k])
             ELSE s[j + k - 1] = tok[k]

\* A match of  \s+ tok \.? \s+  (the \.? only when p.dot) that starts at
\* index i: the index after the match, or 0 when there is none.  Both \s+
\* are greedy; tok starts with a non-space character, so the first run
\* never has to give a character back.
\* MatchTail: the rest of the match from index k, after tok.
MatchTail(s, k, p) ==
  IF p.dot /\ k <= Len(s) /\ s[k] = "."
  THEN IF k + 1 <= Len(s) /\ IsSpace(s[k + 1]) THEN SkipSpace(s, k + 1) ELSE 0
  ELSE IF k <= Len(s) /\ IsSpace(s[k]) THEN SkipSpace(s, k) ELSE 0

\* MatchTok: tok and the rest from index j, after the first \s+.
MatchTok(s, j, p) ==
  IF LiteralAt(s, j, p.tok, p.ic) THEN MatchTail(s, j + Len(p.tok), p) ELSE 0

MatchEnd(s, i, p) ==
  IF i <= Len(s) /\ IsSpace(s[i]) THEN MatchTok(s, SkipSpace(s, i), p) ELSE 0

\* re.sub(pattern, ', ', s): the leftmost non-overlapping matches, scanned
\* from index i on, each replaced by a comma and a space.  SubStep: e is
\* the end of the match at i (0: none).
RECURSIVE SubFrom(_, _, _)
RECURSIVE SubStep(_, _, _, _)
SubStep(s, i, p, e) ==
  IF e > 0 THEN <<",", " ">> \o SubFrom(s, e, p)
  ELSE <<s[i]>> \o SubFrom(s, i + 1, p)

SubFrom(s, i, p) ==
  IF i > Len(s) THEN <<>> ELSE SubStep(s, i, p, MatchEnd(s, i, p))

re_sub(p, s) == SubFrom(s, 1, p)

\* str.strip()
RECURSIVE strip(_)
strip(s) ==
  IF s = <<>> THEN s
  ELSE IF IsSpace(s[1]) THEN strip(Tail(s))
  ELSE IF IsSpace(s[Len(s)]) THEN strip(SubSeq(s, 1, Len(s) - 1))
  ELSE s

\* str.split(sep) for a one-character sep: the pieces between the seps.
RECURSIVE SplitFrom(_, _, _, _)
SplitFrom(s, i, cur, sep) ==
  IF i > Len(s) THEN <<cur>>
  ELSE IF s[i] = sep THEN <<cur>> \o SplitFrom(s, i + 1, <<>>, sep)
  ELSE SplitFrom(s, i + 1, Append(cur, s[i]), sep)

\* split with maxsplit = 1: only the first sep cuts.
split_MaxOnce(s, sep) ==
  IF \E i \in 1..Len(s) : s[i] = sep
  THEN LET i == CHOOSE i \in 1..Len(s) :
                  s[i] = sep /\ \A j \in 1..(i - 1) : s[j] # sep
       IN  << SubSeq(s, 1, i - 1), SubSeq(s, i + 1, Len(s)) >>
  ELSE <<s>>

split(s, sep) == SplitFrom(s, 1, <<>>, sep)

\* sep.join(list)
RECURSIVE join(_, _)
join(sep, list) ==
  IF list = <<>> THEN <<>>
  ELSE IF Len(list) = 1 THEN list[1]
  ELSE list[1] \o sep \o join(sep, Tail(list))

\* [f(a) for a in list] and [a for a in list if a]
\* StripAll without a.strip(): the pieces are kept as they were cut.
StripAll_Unstripped(list) == list

RECURSIVE StripAll(_)
StripAll(list) ==
  IF list = <<>> THEN <<>> ELSE <<strip(Head(list))>> \o StripAll(Tail(list))

\* DropEmpty without the filter  [a for a in artists if a].
DropEmpty_KeepAll(list) == list

RECURSIVE DropEmpty(_)
DropEmpty(list) ==
  IF list = <<>> THEN <<>>
  ELSE IF Head(list) = <<>> THEN DropEmpty(Tail(list))
  ELSE <<Head(list)>> \o DropEmpty(Tail(list))

\* --------------------------------------------------------- parse_artists
\* The six "featuring" patterns, in the order of the list; every one is
\* applied with re.IGNORECASE.
patterns ==
  << [tok |-> <<"f","e","a","t">>, dot |-> TRUE, ic |-> TRUE],
     [tok |-> <<"f","t">>, dot |-> TRUE, ic |-> TRUE],
     [tok |-> <<"f","e","a","t","u","r","i","n","g">>, dot |-> FALSE, ic |-> TRUE],
     [tok |-> <<"F","e","a","t">>, dot |-> TRUE, ic |-> TRUE],
     [tok |-> <<"F","t">>, dot |-> TRUE, ic |-> TRUE],
     [tok |-> <<"F","e","a","t","u","r","i","n","g">>, dot |-> FALSE, ic |-> TRUE] >>

AmpPattern == [tok |-> <<"&">>, dot |-> FALSE, ic |-> FALSE]

AndPattern == [tok |-> <<"a","n","d">>, dot |-> FALSE, ic |-> TRUE]

\* for pattern in patterns: result = re.sub(pattern, ', ', result, ...)
RECURSIVE ApplyPatterns(_, _)
ApplyPatterns(ps, s) ==
  IF ps = <<>> THEN s ELSE ApplyPatterns(Tail(ps), re_sub(Head(ps), s))

parse_artists(artist_string) ==
  IF artist_string = None \/ artist_string = <<>> THEN <<>>
  ELSE LET r1 == ApplyPatterns(patterns, artist_string)
           r2 == re_sub(AmpPattern, r1)
           r3 == re_sub(AndPattern, r2)
       IN  DropEmpty(StripAll(split(r3, ",")))

\* ''.join(a + ';' for a in artists_list): a ';' after every name.
format_artists_to_semicolon_EachEnded(artists_list) ==
  IF artists_list = <<>> THEN <<>> ELSE join(<<";">>, artists_list) \o <<";">>

format_artists_to_semicolon(artists_list) == join(<<";">>, artists_list)

\* ------------------------------------------------- credits of the parser
\* Words a credit is built from; the empty word gives leading, trailing
\* and doubled spaces.
Words ==
  { <<>>, <<"x">>, <<",">>, <<";">>, <<"&">>,
    <<"a","n","d">>, <<"A","n","d">>, <<"x","a","n","d","y">>,
    <<"f","t">>, <<"f","t",".">>, <<"f","e","a","t">>,
    <<"f","e","a","t","u","r","i","n","g">> }

WordLists == UNION { [1..n -> Words] : n \in 0..MaxWords }

Credits == { join(<<" ">>, ws) : ws \in WordLists } \cup {None}

\* ------------------------------------------------------- files on disk
\* The separator mutagen puts between the values of one ID3 text frame
\* when the frame is read as a string.
NUL == "NUL"

\* A file on disk.  kind: "nfo" (well-formed sidecar), "badxml" (sidecar
\* that is not well-formed), "mp4", "vorbis" (FLAC, Ogg Vorbis), "id3"
\* (MP3, AIFF, WAVE), "other" (a container mutagen opens as another type),
\* "unknown" (mutagen.File returns None), "corrupt" (mutagen.File raises).
\* artist / albumartist: the texts of the sidecar's elements in document
\* order, or the values of the tag (empty: no such element or key).
\* genre: the sidecar's genre elements, each with its text and whether it
\* is a direct child of the root.  mbid / title: whether the sidecar has a
\* MusicBrainz id element / a title element with text.
MkFile(kind, tags, artist, albumartist, genre, mbid, title) ==
  [kind |-> kind, tags |-> tags, artist |-> artist,
   albumartist |-> albumartist, genre |-> genre, mbid |-> mbid,
   title |-> title]

\* Python truth of a text or None.
Truthy(s) == s # None /\ s # <<>>

Outcome(success, changed, message, file, log, backup) ==
  [success |-> success, changed |-> changed, message |-> message,
   file |-> file, log |-> log, backup |-> backup, genres |-> <<>>]

\* ------------------------------------ format-music-file-metadata.py: nfo
\* The element text the loop body computes: formatted.
NfoFormatted(text) ==
  format_artists_to_semicolon(parse_artists(strip(text)))

\* formatted != original, for one element text of the sidecar.
NfoTextChanges(text) == text # <<>> /\ NfoFormatted(text) # strip(text)

\* The element text after the loop body: artist_elem.text = formatted.
NfoNewText(text) ==
  IF NfoTextChanges(text) THEN NfoFormatted(text) ELSE text

\* BackupThenWrite with the two statements in the other order: the file
\* is written first and copied afterwards.
BackupThenWrite_WriteFirst(old, new, backup, fault, broken, calls) ==
  IF backup /\ fault = "copy"
  THEN [success |-> FALSE, changed |-> FALSE, message |-> "Error",
        file |-> new, log |-> calls \o <<"write", "copy_failed">>,
        backup |-> <<>>, genres |-> <<>>]
  ELSE [success |-> TRUE, changed |-> TRUE, message |-> "Updated successfully",
        file |-> new,
        log |-> calls \o <<"write">> \o (IF backup THEN <<"copy">> ELSE <<>>),
        backup |-> IF backup THEN <<new>> ELSE <<>>, genres |-> <<>>]

\* shutil.copy2 then tree.write / audio.save, with the fault the
\* environment injects: the log of I/O calls (after the calls made
\* before), the file left on disk and the backup made (none: <<>>).
\* "copy": copy2 raises and nothing is written; "save_denied": the write
\* raises before the file is touched; "save_partial": the write raises
\* after the file was truncated, which leaves a file of kind broken.
BackupThenWrite(old, new, backup, fault, broken, calls) ==
  IF backup /\ fault = "copy"
  THEN Outcome(FALSE, FALSE, "Error", old, calls \o <<"copy_failed">>, <<>>)
  ELSE IF fault = "save_denied"
  THEN Outcome(FALSE, FALSE, "Error", old,
               calls \o (IF backup THEN <<"copy">> ELSE <<>>) \o <<"write_failed">>,
               IF backup THEN <<old>> ELSE <<>>)
  ELSE IF fault = "save_partial"
  THEN Outcome(FALSE, FALSE, "Error", [old EXCEPT !.kind = broken],
               calls \o (IF backup THEN <<"copy">> ELSE <<>>) \o <<"write_failed">>,
               IF backup THEN <<old>> ELSE <<>>)
  ELSE Outcome(TRUE, TRUE, "Updated successfully", new,
               calls \o (IF backup THEN <<"copy">> ELSE <<>>) \o <<"write">>,
               IF backup THEN <<old>> ELSE <<>>)

\* The end of both update_nfo_file: tree is the document in memory, calls
\* the requests made before.
NfoFinish(f, tree, changed, dry_run, backup, fault, calls) ==
  IF changed /\ ~dry_run
  THEN BackupThenWrite(f, tree, backup, fault, "badxml", calls)
  ELSE IF changed /\ dry_run
  THEN Outcome(TRUE, TRUE, "Would be updated (dry run)", f, calls, <<>>)
  ELSE Outcome(TRUE, FALSE, "No changes needed", f, calls, <<>>)

music_update_nfo_file(f, dry_run, backup, fault) ==
  IF f.kind # "nfo"
  THEN Outcome(FALSE, FALSE, "XML parse error", f, <<>>, <<>>)
  ELSE NfoFinish(
         f,
         [f EXCEPT
           !.artist = [i \in 1..Len(f.artist) |-> NfoNewText(f.artist[i])],
           !.albumartist =
             [i \in 1..Len(f.albumartist) |-> NfoNewText(f.albumartist[i])]],
         \/ \E i \in 1..Len(f.artist) : NfoTextChanges(f.artist[i])
         \/ \E i \in 1..Len(f.albumartist) : NfoTextChanges(f.albumartist[i]),
         dry_run, backup, fault, <<>>)

\* ---------------------------------- format-music-file-metadata.py: tags
\* str(frame) of an ID3 text frame: its values joined with NUL.
FrameStr(values) == join(<<NUL>>, values)

Field(audio, name) == IF name = "artist" THEN audio.artist ELSE audio.albumartist

\* get_current_artist / get_current_album_artist: the first value of the
\* MP4 atom or the Vorbis field, the string of the ID3 frame, else None.
CurrentField(audio, name) ==
  CASE audio.kind \in {"mp4", "vorbis"} ->
         IF Field(audio, name) # <<>> THEN Field(audio, name)[1] ELSE None
    [] audio.kind = "id3" ->
         IF audio.tags /\ Field(audio, name) # <<>>
         THEN FrameStr(Field(audio, name)) ELSE None
    [] OTHER -> None

get_current_artist(audio) == CurrentField(audio, "artist")

get_current_album_artist(audio) == CurrentField(audio, "albumartist")

\* NewFieldValues storing the names joined with a comma, a form the
\* parser cuts again.
NewFieldValues_Comma(kind, artists_list) ==
  << join(<<",">>, artists_list) >>

\* The values update_artist / update_album_artist store in the field.
NewFieldValues(kind, artists_list) ==
  IF kind = "vorbis" THEN artists_list
  ELSE << join(<<";">>, artists_list) >>

\* update_artist that stores the names in the album-artist field too.
update_artist_AlsoAlbumArtist(audio, artists_list) ==
  [audio EXCEPT !.artist = NewFieldValues(audio.kind, artists_list),
                !.albumartist = NewFieldValues(audio.kind, artists_list),
                !.tags = TRUE]

update_artist(audio, artists_list) ==
  [audio EXCEPT !.artist = NewFieldValues(audio.kind, artists_list),
                !.tags = TRUE]

update_album_artist(audio, artists_list) ==
  [audio EXCEPT !.albumartist = NewFieldValues(audio.kind, artists_list),
                !.tags = TRUE]

\* would_change / would_change_aa of update_music_file.
would_change(kind, current, parsed) ==
  IF kind = "vorbis"
  THEN IF parsed # <<>> THEN Len(parsed) > 1 \/ current # parsed[1] ELSE FALSE
  ELSE join(<<";">>, parsed) # current

\* One "Process ... field" block of update_music_file: whether it set
\* changed, whether it returned the failure, the audio object after it and
\* the adapter calls it made.
FieldResult(changed, failed, audio, log) ==
  [changed |-> changed, failed |-> failed, audio |-> audio, log |-> log]

\* if would_change: ...
FieldApply(audio, name, dry_run, fault, current, parsed) ==
  IF ~would_change(audio.kind, current, parsed)
  THEN FieldResult(FALSE, FALSE, audio, <<>>)
  ELSE IF dry_run THEN FieldResult(TRUE, FALSE, audio, <<>>)
  ELSE IF fault = name
  THEN FieldResult(FALSE, TRUE, audio, <<"set_" \o name \o "_failed">>)
  ELSE FieldResult(TRUE, FALSE,
                   IF name = "artist" THEN update_artist(audio, parsed)
                   ELSE update_album_artist(audio, parsed),
                   <<"set_" \o name>>)

\* if current_artist: artists = parse_artists(current_artist) ...
FieldDecide(audio, name, dry_run, fault, current) ==
  IF Truthy(current)
  THEN FieldApply(audio, name, dry_run, fault, current, parse_artists(current))
  ELSE FieldResult(FALSE, FALSE, audio, <<>>)

FieldStep(audio, name, dry_run, fault) ==
  FieldDecide(audio, name, dry_run, fault, CurrentField(audio, name))

\* What audio.save() leaves on disk: an ID3 frame text is stored with NUL
\* between its values, so a text holding NUL reads back as several values.
Saved(audio) ==
  IF audio.kind = "id3"
  THEN [audio EXCEPT
         !.artist = IF audio.artist = <<>> THEN <<>>
                    ELSE split(FrameStr(audio.artist), NUL),
         !.albumartist = IF audio.albumartist = <<>> THEN <<>>
                         ELSE split(FrameStr(audio.albumartist), NUL)]
  ELSE audio

\* AfterAlbumArtist with the backup taken before "if not changed".
AfterAlbumArtist_BackupFirst(f, dry_run, backup, fault, a1, a2) ==
  IF ~(a1.changed \/ a2.changed)
  THEN [success |-> TRUE, changed |-> FALSE, message |-> "No changes needed",
        file |-> f, log |-> IF backup THEN <<"copy">> ELSE <<>>,
        backup |-> IF backup THEN <<f>> ELSE <<>>, genres |-> <<>>]
  ELSE [success |-> TRUE, changed |-> TRUE, message |-> "Updated successfully",
        file |-> a2.audio,
        log |-> a1.log \o a2.log \o (IF backup THEN <<"copy">> ELSE <<>>)
                  \o <<"write">>,
        backup |-> IF backup THEN <<f>> ELSE <<>>, genres |-> <<>>]

\* AfterAlbumArtist with the backup made only once the save has gone
\* through: a save that raises leaves no backup.
AfterAlbumArtist_BackupAfterSave(f, dry_run, backup, fault, a1, a2) ==
  IF a2.failed
  THEN Outcome(FALSE, FALSE, "Failed to update album artist", f,
               a1.log \o a2.log, <<>>)
  ELSE IF ~(a1.changed \/ a2.changed)
  THEN Outcome(TRUE, FALSE, "No changes needed", f, <<>>, <<>>)
  ELSE IF ~dry_run
  THEN BackupThenWrite(f, Saved(a2.audio),
                       backup /\ fault \notin {"save_denied", "save_partial"},
                       fault, "corrupt", a1.log \o a2.log)
  ELSE Outcome(TRUE, TRUE, "Would be updated (dry run)", f, <<>>, <<>>)

\* update_music_file from "if not changed" on; a1 and a2 are the results
\* of the two field blocks.
AfterAlbumArtist(f, dry_run, backup, fault, a1, a2) ==
  IF a2.failed
  THEN Outcome(FALSE, FALSE, "Failed to update album artist", f,
               a1.log \o a2.log, <<>>)
  ELSE IF ~(a1.changed \/ a2.changed)
  THEN Outcome(TRUE, FALSE, "No changes needed", f, <<>>, <<>>)
  ELSE IF ~dry_run
  THEN BackupThenWrite(f, Saved(a2.audio), backup, fault, "corrupt",
                       a1.log \o a2.log)
  ELSE Outcome(TRUE, TRUE, "Would be updated (dry run)", f, <<>>, <<>>)

\* AfterArtist without  "if not update_artist(...): return False, ...":
\* a failed artist write is ignored and the update goes on.
AfterArtist_GoesOn(f, dry_run, backup, fault, a1) ==
  AfterAlbumArtist(f, dry_run, backup, fault, a1,
                   FieldStep(a1.audio, "albumartist", dry_run, fault))

\* update_music_file from the album artist block on.
AfterArtist(f, dry_run, backup, fault, a1) ==
  IF a1.failed
  THEN Outcome(FALSE, FALSE, "Failed to update artist", f, a1.log, <<>>)
  ELSE AfterAlbumArtist(f, dry_run, backup, fault, a1,
                        FieldStep(a1.audio, "albumartist", dry_run, fault))

\* update_music_file taking a file that File() fails to open for a file
\* of no supported format.
update_music_file_OpenErrorSkipped(f, dry_run, backup, fault) ==
  IF f.kind \in {"corrupt", "unknown"}
  THEN Outcome(TRUE, FALSE, "Unsupported file format", f, <<>>, <<>>)
  ELSE AfterArtist(f, dry_run, backup, fault,
                   FieldStep(f, "artist", dry_run, fault))

update_music_file(f, dry_run, backup, fault) ==
  IF f.kind = "corrupt"
  THEN Outcome(FALSE, FALSE, "Error", f, <<>>, <<>>)
  ELSE IF f.kind = "unknown"
  THEN Outcome(TRUE, FALSE, "Unsupported file format", f, <<>>, <<>>)
  ELSE AfterArtist(f, dry_run, backup, fault,
                   FieldStep(f, "artist", dry_run, fault))

\* ------------------------------------------- format-metadata.py: genres
\* str.lower() / str.capitalize() of a text.
lower(s) == [i \in 1..Len(s) |-> Lower(s[i])]

capitalize(s) == [i \in 1..Len(s) |-> IF i = 1 THEN Upper(s[i]) ELSE Lower(s[i])]

\* str.split() without argument: the maximal runs of non-whitespace.
RECURSIVE SplitWsFrom(_, _, _)
SplitWsFrom(s, i, cur) ==
  IF i > Len(s) THEN IF cur = <<>> THEN <<>> ELSE <<cur>>
  ELSE IF IsSpace(s[i])
       THEN (IF cur = <<>> THEN <<>> ELSE <<cur>>) \o SplitWsFrom(s, i + 1, <<>>)
       ELSE SplitWsFrom(s, i + 1, Append(cur, s[i]))

split_ws(s) == SplitWsFrom(s, 1, <<>>)

\* ' '.join(word.capitalize() for word in tag_name.split())
TagName(name) ==
  LET ws == split_ws(name)
  IN  join(<<" ">>, [i \in 1..Len(ws) |-> capitalize(ws[i])])

\* get_genres_from_musicbrainz: the names of the tags with at least one
\* vote, in the order of the answer; [] when the request raises.
RECURSIVE GenresOf(_)
GenresOf(tag_list) ==
  IF tag_list = <<>> THEN <<>>
  ELSE (IF Head(tag_list).count >= 1 THEN <<TagName(Head(tag_list).name)>>
        ELSE <<>>) \o GenresOf(Tail(tag_list))

get_genres_from_musicbrainz(answer) ==
  IF answer.error THEN <<>> ELSE GenresOf(answer.tags)

\* search_album_on_musicbrainz: whether an id came back (None when the
\* request raises, "raises", or the list is empty, "none").
search_album_on_musicbrainz(answer) == answer.search = "found"

\* needs_genre_fetch with "any(...) == 'music'" for the placeholder: one
\* Music among several genres triggers the fetch.
needs_genre_fetch_AnyMusic(existing_genres, force_genres) ==
  \/ force_genres
  \/ existing_genres = <<>>
  \/ \A i \in 1..Len(existing_genres) : strip(existing_genres[i].text) = <<>>
  \/ \E i \in 1..Len(existing_genres) :
       lower(strip(existing_genres[i].text)) = <<"m","u","s","i","c">>

\* needs_genre_fetch of update_nfo_file.
needs_genre_fetch(existing_genres, force_genres) ==
  \/ force_genres
  \/ existing_genres = <<>>
  \/ \A i \in 1..Len(existing_genres) :
       existing_genres[i].text = <<>> \/ strip(existing_genres[i].text) = <<>>
  \/ /\ Len(existing_genres) = 1
     /\ existing_genres[1].text # <<>>
     /\ lower(strip(existing_genres[1].text)) = <<"m","u","s","i","c">>

\* MdChangesTo without "if len(artists) > 1": the test of the music-file
\* updater's sidecar loop.
MdChangesTo_AnyLength(original, parsed) ==
  format_artists_to_semicolon(parsed) # original

\* formatted != original under len(artists) > 1, for one artist element.
MdChangesTo(original, parsed) ==
  Len(parsed) > 1 /\ format_artists_to_semicolon(parsed) # original

MdTextChanges(text) ==
  text # <<>> /\ MdChangesTo(strip(text), parse_artists(strip(text)))

MdNewText(text) ==
  IF MdTextChanges(text)
  THEN format_artists_to_semicolon(parse_artists(strip(text)))
  ELSE text

\* The genres element list after the replacement.
NewGenres(genres) ==
  [i \in 1..Len(genres) |-> [text |-> genres[i], top |-> TRUE]]

\* update_nfo_file from "if genres:" on.  root.remove(genre_elem) raises
\* for an element that is not a child of the root.
MdReplace(f, dry_run, backup, fault, artist_changed, new_artist, calls, genres) ==
  IF genres # <<>> /\ \E i \in 1..Len(f.genre) : ~f.genre[i].top
  THEN Outcome(FALSE, FALSE, "Error", f, calls, <<>>)
  ELSE NfoFinish(f,
                 [f EXCEPT !.artist = new_artist,
                           !.genre = IF genres # <<>> THEN NewGenres(genres)
                                     ELSE f.genre],
                 artist_changed \/ genres # <<>>,
                 dry_run, backup, fault, calls)

\* The outcome of an update together with the value of its variable
\* genres (what the lookup returned; [] when none was made).
WithGenres(o, genres) == [o EXCEPT !.genres = genres]

\* The entries of the log for the two requests: a request that raises is
\* answered by its except clause with a warning.
SearchCall(answer) ==
  IF answer.search = "raises" THEN <<"search_failed">> ELSE <<"search">>

GetGenresCall(answer) ==
  IF answer.error THEN <<"get_genres_failed">> ELSE <<"get_genres">>

\* MdGot without the except clauses of the two requests: a request that
\* raises ends the update in the except clause of update_nfo_file.
MdGot_LookupErrorFatal(f, dry_run, backup, fault, artist_changed, new_artist, calls, genres) ==
  IF \E n \in 1..Len(calls) : calls[n] \in {"search_failed", "get_genres_failed"}
  THEN Outcome(FALSE, FALSE, "Error", f, calls, <<>>)
  ELSE WithGenres(MdReplace(f, dry_run, backup, fault, artist_changed,
                            new_artist, calls, genres), genres)

\* update_nfo_file from "genres = get_genres_from_musicbrainz(mb_id)" on.
MdGot(f, dry_run, backup, fault, artist_changed, new_artist, calls, genres) ==
  WithGenres(MdReplace(f, dry_run, backup, fault, artist_changed,
                       new_artist, calls, genres), genres)

\* update_nfo_file from "if mb_id:" on; can_search: the search was made.
MdFetch(f, dry_run, backup, fault, answer, artist_changed, new_artist, need, can_search, mb_id) ==
  MdGot(f, dry_run, backup, fault, artist_changed, new_artist,
        (IF need /\ can_search THEN SearchCall(answer) ELSE <<>>)
          \o (IF need /\ mb_id THEN GetGenresCall(answer) ELSE <<>>),
        IF need /\ mb_id THEN get_genres_from_musicbrainz(answer)
        ELSE <<>>)

\* update_nfo_file from "if needs_genre_fetch:" on: the id of the
\* document, else the search with album_name and artist_name.
MdIdentify(f, dry_run, backup, fault, answer, artist_changed, new_artist, need, can_search) ==
  MdFetch(f, dry_run, backup, fault, answer, artist_changed, new_artist,
          need, can_search,
          f.mbid \/ (can_search /\ search_album_on_musicbrainz(answer)))

\* update_nfo_file from "if fetch_genres:" on; mem_artist: the artist
\* texts of the tree in memory.
MdGenres(f, dry_run, backup, fetch_genres, force_genres, fault, answer, artist_changed, new_artist, mem_artist) ==
  MdIdentify(f, dry_run, backup, fault, answer, artist_changed, new_artist,
             fetch_genres /\ needs_genre_fetch(f.genre, force_genres),
             ~f.mbid /\ f.title /\ mem_artist # <<>> /\ mem_artist[1] # <<>>)

MdArtists(f, dry_run, backup, fetch_genres, force_genres, fault, answer, new_artist) ==
  MdGenres(f, dry_run, backup, fetch_genres, force_genres, fault, answer,
           \E i \in 1..Len(f.artist) : MdTextChanges(f.artist[i]),
           new_artist, IF dry_run THEN f.artist ELSE new_artist)

metadata_update_nfo_file(f, dry_run, backup, fetch_genres, force_genres, fault, answer) ==
  IF f.kind # "nfo"
  THEN Outcome(FALSE, FALSE, "XML parse error", f, <<>>, <<>>)
  ELSE MdArtists(f, dry_run, backup, fetch_genres, force_genres, fault,
                 answer, [i \in 1..Len(f.artist) |-> MdNewText(f.artist[i])])

\* ------------------------------------------------ format-show-titles.py
\* Path.suffix and Path.stem of a file name: from the last dot on, and
\* what is before it (no suffix when the only dot is the first
\* character or there is none).
LastDot(name) ==
  IF \E i \in 1..Len(name) : name[i] = "."
  THEN CHOOSE i \in 1..Len(name) :
         name[i] = "." /\ \A j \in (i + 1)..Len(name) : name[j] # "."
  ELSE 0

suffix(name) ==
  IF LastDot(name) > 1 THEN SubSeq(name, LastDot(name), Len(name)) ELSE <<>>

stem(name) ==
  IF LastDot(name) > 1 THEN SubSeq(name, 1, LastDot(name) - 1) ELSE name

\* name.rstrip('. ')
RECURSIVE rstrip_dots(_)
rstrip_dots(name) ==
  IF name # <<>> /\ name[Len(name)] \in {".", " "}
  THEN rstrip_dots(SubSeq(name, 1, Len(name) - 1))
  ELSE name

InvalidChars == {"<", ">", ":", "\"", "/", "\\", "|", "?", "*"}

sanitize_filename(name) ==
  rstrip_dots([i \in 1..Len(name) |->
                 IF name[i] \in InvalidChars THEN "_" ELSE name[i]])

\* f"{n:02d}" for 0 <= n < 100
Digits == <<"0", "1", "2", "3", "4", "5", "6", "7", "8", "9">>

Pad2(n) == << Digits[(n \div 10) + 1], Digits[(n % 10) + 1] >>

\* new_base = f"{show_name} - S{season_num:02d}E{episode_num:02d} - {sanitized_name}"
NewBase(show_name, season_num, episode_num, episode_name) ==
  show_name \o <<" ", "-", " ", "S">> \o Pad2(season_num) \o <<"E">>
    \o Pad2(episode_num) \o <<" ", "-", " ">> \o sanitize_filename(episode_name)

DotMkv   == <<".", "m", "k", "v">>
DotNfo   == <<".", "n", "f", "o">>
ThumbJpg == <<"-", "t", "h", "u", "m", "b", ".", "j", "p", "g">>
DotJpg   == <<".", "j", "p", "g">>

\* for ext in ['.nfo', '-thumb.jpg', '.jpg']
AssociatedExts == << DotNfo, ThumbJpg, DotJpg >>

\* extract_episode_number: the two digits of the leftmost match of the
\* first pattern that matches; <<>> is None.
IsDigit(c) == \E d \in 1..10 : Digits[d] = c

DigitVal(c) == (CHOOSE d \in 1..10 : Digits[d] = c) - 1

TwoDigits(s, i) ==
  i >= 1 /\ i + 1 <= Len(s) /\ IsDigit(s[i]) /\ IsDigit(s[i + 1])

\* \s* from position i: the position of the first character that is not
\* a space
RECURSIVE SkipSpaces(_, _)
SkipSpaces(s, i) ==
  IF i <= Len(s) /\ s[i] = " " THEN SkipSpaces(s, i + 1) ELSE i

TxEpisode == <<"E", "p", "i", "s", "o", "d", "e">>

\* Where the digits of the matches of the four patterns start, a set
\* per pattern, keyed by where the match starts.
PatternMatches(s) ==
  << { <<i, i + 1>> : i \in { j \in 1..Len(s) :
         s[j] = " " /\ TwoDigits(s, j + 1)
           /\ j + 3 <= Len(s) /\ s[j + 3] = " " } },
     { <<i, i + 1>> : i \in { j \in 1..Len(s) :
         s[j] \in {"E", "e"} /\ TwoDigits(s, j + 1) } },
     { <<i, SkipSpaces(s, i + 7)>> : i \in { j \in 1..Len(s) :
         j + 6 <= Len(s) /\ SubSeq(s, j, j + 6) = TxEpisode
           /\ TwoDigits(s, SkipSpaces(s, j + 7)) } },
     { <<i, SkipSpaces(s, i + 1)>> : i \in { j \in 1..Len(s) :
         s[j] = "-" /\ TwoDigits(s, SkipSpaces(s, j + 1))
           /\ SkipSpaces(s, SkipSpaces(s, j + 1) + 2) <= Len(s)
           /\ s[SkipSpaces(s, SkipSpaces(s, j + 1) + 2)] = "-" } } >>

\* re.search: the leftmost match
Leftmost(matches) ==
  CHOOSE mt \in matches : \A o \in matches : mt[1] <= o[1]

RECURSIVE ExtractFrom(_, _, _)
ExtractFrom(s, found, p) ==
  IF p > Len(found) THEN <<>>
  ELSE IF found[p] # {}
  THEN << 10 * DigitVal(s[Leftmost(found[p])[2]])
            + DigitVal(s[Leftmost(found[p])[2] + 1]) >>
  ELSE ExtractFrom(s, found, p + 1)

extract_episode_number(filename) ==
  ExtractFrom(filename, PatternMatches(filename), 1)

\* A directory is a set of entries: the name of a file and its content,
\* which is told by the name the file had at the start.
Entry(name, content) == [name |-> name, content |-> content]

Exists(dir, name) == \E e \in dir : e.name = name

\* find_associated_files: the files named after the stem of the mkv file
\* that exist, in the order of the extensions.
RECURSIVE AssociatedFrom(_, _, _)
AssociatedFrom(dir, base_name, i) ==
  IF i > Len(AssociatedExts) THEN <<>>
  ELSE (IF Exists(dir, base_name \o AssociatedExts[i])
        THEN << base_name \o AssociatedExts[i] >> ELSE <<>>)
         \o AssociatedFrom(dir, base_name, i + 1)

find_associated_files(dir, mkv_path) == AssociatedFrom(dir, stem(mkv_path), 1)

\* Path.rename(src -> dst) that goes through: the file has the new name;
\* a file that had that name is replaced.
Renamed(dir, src, dst) ==
  { e \in dir : e.name \notin {src, dst} }
    \cup { Entry(dst, e.content) : e \in { x \in dir : x.name = src } }

\* Path.rename raises: the failure the environment injects, or, where
\* rename does not replace (Windows), a file of the new name exists.
RenameRaises(dir, dst, posix, fault) ==
  fault \/ (~posix /\ Exists(dir, dst))

\* for assoc in associated_files: assoc.rename(season_dir / f"{new_base}{assoc.suffix}")
\* from the i-th on; fail_at is the rename the environment lets fail
\* (0: none, 1: the mkv file, k + 1: the k-th associated file).  The
\* result: the directory and whether an exception ended the renames.
RECURSIVE RenameAssociated(_, _, _, _, _, _)
RenameAssociated(dir, associated_files, i, new_base, posix, fail_at) ==
  IF i > Len(associated_files) THEN [dir |-> dir, raised |-> FALSE]
  ELSE IF RenameRaises(dir, new_base \o suffix(associated_files[i]), posix,
                       fail_at = i + 1)
  THEN [dir |-> dir, raised |-> TRUE]
  ELSE RenameAssociated(
         Renamed(dir, associated_files[i],
                 new_base \o suffix(associated_files[i])),
         associated_files, i + 1, new_base, posix, fail_at)

\* The try block of rename_episode_files: the mkv file, then the
\* associated files found before.
RenameFiles(dir, mkv_file, associated_files, new_base, posix, fail_at) ==
  IF RenameRaises(dir, new_base \o DotMkv, posix, fail_at = 1)
  THEN [dir |-> dir, raised |-> TRUE]
  ELSE RenameAssociated(Renamed(dir, mkv_file, new_base \o DotMkv),
                        associated_files, 1, new_base, posix, fail_at)

\* ------------------------------------------------------ bounded inputs
\* Most values of one tag field / most elements of one name in a sidecar.
MaxValues == 2

\* Most values of the album-artist field.
MaxAlbumValues == 1

\* Files of the directory in the batch scenario.
NumFiles == 3

Seqs(S, n) == UNION { [1..m -> S] : m \in 0..n }

Tx    == <<"x">>
Ty    == <<"y">>
TspX  == <<" ", "x">>
TxAmpY == <<"x", " ", "&", " ", "y">>
Tcomma == <<",">>
TxComma == <<"x", ",">>

ArtistTexts == { Ty, TspX, TxAmpY }

AlbumTexts == { TxAmpY, Tcomma }

Genre(text, top) == [text |-> text, top |-> top]

Music == <<"M","u","s","i","c">>
Rock  == <<"R","o","c","k">>
Pop   == <<"P","o","p">>

GenreInits ==
  { <<>>,
    <<Genre(Music, TRUE)>>,
    <<Genre(<<"m","u","s","i","c"," ">>, TRUE)>>,
    <<Genre(Rock, TRUE)>>,
    <<Genre(<<>>, TRUE)>>,
    <<Genre(<<" ">>, TRUE), Genre(<<>>, TRUE)>>,
    <<Genre(Music, FALSE)>>,
    <<Genre(Rock, TRUE), Genre(Music, TRUE)>> }

\* What the MusicBrainz requests of one update answer: the tags of the
\* fetch after a search that found an id (or with the id of the
\* document), or a fetch that raises after each answer of the search.
Tag(name, count) == [name |-> name, count |-> count]

TagAnswers ==
  { <<>>,
    <<Tag(<<"r","o","c","k">>, 2), Tag(<<"p","o","p">>, 1)>>,
    <<Tag(<<"m","u","s","i","c">>, 1)>>,
    <<Tag(<<"p","o","p"," "," ","r","o","c","k">>, 1), Tag(<<"p","o","p">>, 0)>> }

Answers ==
  [search : {"found"}, error : {FALSE}, tags : TagAnswers]
  \cup [search : {"found", "none", "raises"}, error : {TRUE}, tags : {<<>>}]

NoAnswer == [search |-> "none", error |-> TRUE, tags |-> <<>>]

\* The failure the environment injects into one update (at most one
\* takes effect: the first failure ends the update).
Faults ==
  {"none", "artist", "albumartist", "copy", "save_denied", "save_partial"}

\* The failures of the update of a sidecar, which has no adapter call.
NfoFaults == {"none", "copy", "save_denied", "save_partial"}

Plain(kind) == MkFile(kind, kind # "id3", <<>>, <<>>, <<>>, FALSE, FALSE)

\* Files with artist fields: every format kind with every field content,
\* and the files that cannot be opened or hold no tags.
ArtistFiles ==
  { MkFile(k, TRUE, a, b, <<>>, FALSE, FALSE) :
      k \in {"nfo", "mp4", "vorbis", "id3"},
      a \in Seqs(ArtistTexts, MaxValues),
      b \in Seqs(AlbumTexts, MaxAlbumValues) }
  \cup { Plain(k) : k \in {"badxml", "id3", "other", "unknown", "corrupt"} }

\* Sidecars with genre elements, with and without the MusicBrainz id
\* and the title (which is read only when there is no id).
GenreFiles ==
  { MkFile("nfo", TRUE, a, <<>>, g, id[1], id[2]) :
      a \in {<<>>, <<Tx>>, <<TxAmpY>>},
      g \in GenreInits,
      id \in { <<TRUE, FALSE>>, <<FALSE, TRUE>>, <<FALSE, FALSE>> } }

\* Files of the batch scenario.
BatchFiles ==
  { MkFile("nfo", TRUE, <<TxAmpY>>, <<>>, <<>>, FALSE, FALSE),
    MkFile("mp4", TRUE, <<TxAmpY>>, <<Tx>>, <<>>, FALSE, FALSE),
    MkFile("vorbis", TRUE, <<Tx>>, <<>>, <<>>, FALSE, FALSE),
    Plain("badxml"), Plain("unknown"), Plain("corrupt") }

\* The command lines: format-music-file-metadata.py has --dry-run,
\* --no-backup and --skip-nfo; format-metadata.py has --dry-run,
\* --no-backup, --fetch-genres and --force (which requires
\* --fetch-genres).
Flags(d, b, n, fg, force) ==
  [dry_run |-> d, backup |-> b, update_nfo |-> n, fetch_genres |-> fg,
   force_genres |-> force]

MusicFlags == { Flags(d, b, n, FALSE, FALSE) : d \in BOOLEAN, b \in BOOLEAN, n \in BOOLEAN }

\* The command lines of format-metadata.py, and those main goes on with.
MetadataArgs ==
  { Flags(d, b, TRUE, fg, force) :
      d \in BOOLEAN, b \in BOOLEAN, fg \in BOOLEAN, force \in BOOLEAN }

MetadataFlags == { fl \in MetadataArgs : fl.force_genres => fl.fetch_genres }

NoFlags == Flags(FALSE, FALSE, FALSE, FALSE, FALSE)

\* ------------------------------------------------------------- state
VARIABLES
  credit,    \* parser: the credit string given to parse_artists
  artists,   \* parser: the list parse_artists returned
  phase,     \* "input" / "parsed" (parser); "idle", "running", "done",
             \* "empty" (process_directory: not started, in its loops,
             \* summary printed, returned for want of files); "rejected"
             \* (main: parser.error)
  scenario,  \* "parser", "single" or "batch": the inputs explored
  tool,      \* "music" (format-music-file-metadata.py) or "metadata"
  disk,      \* the files of the directory
  flags,     \* the command line of the current run
  todo,      \* indices of the discovered files, in processing order
  pos,       \* index into todo of the next file
  stats,     \* the counters of process_directory
  results,   \* (success, changed, message) of each file processed in this
             \* run, with the I/O calls made and whether a backup was made
  prev,      \* results of the run before
  pre,       \* the directory as it was when the current run started
  backups,   \* the backup files: file, run that made it, contents
  run,       \* number of runs started
  season_dir,     \* format-show-titles.py: the files of the season
                  \* directory, each with the name it had at the start
  season_before,  \* the season directory at the start
  episode,        \* the mkv file of the loop iteration, what was found
                  \* out about it and the mode of the run
  episode_state,  \* "found" (before the loop body), "skipped",
                  \* "already", "previewed", "renamed", "failed"
  exit_status  \* <<n>>: the process of the current run has exited with
             \* status n; <<>>: it has not exited (or none was started)

vars == <<credit, artists, phase, scenario, tool, disk, flags, todo, pos,
          stats, results, prev, pre, backups, run, exit_status,
          season_dir, season_before, episode, episode_state>>

renameVars == <<season_dir, season_before, episode, episode_state>>

\* No episode renamer runs.
NoEpisode ==
  /\ season_dir = {}
  /\ season_before = {}
  /\ episode = <<>>
  /\ episode_state = "none"

fileVars == <<scenario, tool, disk, flags, todo, pos, stats, results, prev,
              pre, backups, run, exit_status>>

ZeroStats == [processed |-> 0, updated |-> 0, errors |-> 0, skipped |-> 0]

\* ------------------------------------------------------------- parser
InitParse ==
  /\ credit \in Credits
  /\ artists = <<>>
  /\ phase = "input"
  /\ scenario = "parser"
  /\ tool = "music"
  /\ disk = <<>>
  /\ flags = NoFlags
  /\ todo = <<>>
  /\ pos = 1
  /\ stats = ZeroStats
  /\ results = <<>>
  /\ prev = <<>>
  /\ pre = <<>>
  /\ backups = {}
  /\ run = 0
  /\ exit_status = <<>>
  /\ NoEpisode

\* artists = parse_artists(credit)
Parse ==
  /\ phase = "input"
  /\ artists' = parse_artists(credit)
  /\ phase' = "parsed"
  /\ UNCHANGED <<renameVars, credit, fileVars>>

NextParse == Parse

SpecParse == InitParse /\ [][NextParse]_vars

\* ------------------------------------------------- process_directory
IsNfo(f) == f.kind \in {"nfo", "badxml"}

\* Indices i..Len(d) of the files that are (nfo = TRUE) or are not
\* sidecars, in directory order.
RECURSIVE Select(_, _, _)
Select(d, i, nfo) ==
  IF i > Len(d) THEN <<>>
  ELSE (IF IsNfo(d[i]) = nfo THEN <<i>> ELSE <<>>) \o Select(d, i + 1, nfo)

\* nfo_files then music_files (music tool); nfo_files (metadata tool).
Discovered(d, t, fl) ==
  IF t = "music"
  THEN (IF fl.update_nfo THEN Select(d, 1, TRUE) ELSE <<>>) \o Select(d, 1, FALSE)
  ELSE Select(d, 1, TRUE)

InitFiles(sc, t, d) ==
  /\ credit = None
  /\ artists = <<>>
  /\ phase = "idle"
  /\ scenario = sc
  /\ tool = t
  /\ disk = d
  /\ flags = NoFlags
  /\ todo = <<>>
  /\ pos = 1
  /\ stats = ZeroStats
  /\ results = <<>>
  /\ prev = <<>>
  /\ pre = d
  /\ backups = {}
  /\ run = 0
  /\ exit_status = <<>>
  /\ NoEpisode

\* The sidecars format-metadata.py is run on.
SidecarFiles ==
  GenreFiles \cup { g \in ArtistFiles : IsNfo(g) /\ g.albumartist = <<>> }
    \cup { MkFile("nfo", TRUE, <<TxComma>>, <<>>, <<>>, FALSE, FALSE) }

InitSingle ==
  \/ \E f \in ArtistFiles : InitFiles("single", "music", <<f>>)
  \/ \E f \in SidecarFiles : InitFiles("single", "metadata", <<f>>)

InitBatch ==
  \E t \in {"music", "metadata"}, d \in [1..NumFiles -> BatchFiles] :
    InitFiles("batch", t, d)

\* The batch scenario is one run over the directory; the others are a
\* run over one file and a run again over what the first left.
RunLimit == IF scenario = "batch" THEN 1 ELSE 2

\* The command lines tried.  The sidecars of the batch scenario hold
\* neither genres nor a title nor an id, so genre fetching is left to the
\* runs over one file.
FlagChoices ==
  IF tool = "music" THEN MusicFlags
  ELSE IF scenario = "batch"
  THEN { fl \in MetadataFlags : ~fl.fetch_genres }
  ELSE MetadataFlags

\* main -> process_directory up to the creation of stats.
StartRun ==
  /\ phase \in {"idle", "done", "empty", "rejected"}
  /\ run < RunLimit
  /\ \E fl \in FlagChoices :
       /\ flags' = fl
       /\ todo' = Discovered(disk, tool, fl)
       /\ phase' = IF Discovered(disk, tool, fl) = <<>> THEN "empty" ELSE "running"
       /\ exit_status' = IF Discovered(disk, tool, fl) = <<>> THEN <<0>> ELSE <<>>
  /\ pos' = 1
  /\ stats' = ZeroStats
  /\ results' = <<>>
  /\ prev' = results
  /\ pre' = disk
  /\ run' = run + 1
  /\ UNCHANGED <<renameVars, credit, artists, scenario, tool, disk, backups>>

\* main of format-metadata.py with --force and without --fetch-genres:
\* parser.error prints the usage and exits with status 2 before
\* process_directory is called.
UsageError ==
  /\ phase \in {"idle", "done", "empty", "rejected"}
  /\ run < RunLimit
  /\ tool = "metadata"
  /\ \E fl \in MetadataArgs \ MetadataFlags : flags' = fl
  /\ phase' = "rejected"
  /\ exit_status' = <<2>>
  /\ todo' = <<>>
  /\ pos' = 1
  /\ stats' = ZeroStats
  /\ results' = <<>>
  /\ prev' = results
  /\ pre' = disk
  /\ run' = run + 1
  /\ UNCHANGED <<renameVars, credit, artists, scenario, tool, disk, backups>>

\* Count with "if not changed" for "elif success and not changed": a
\* failed file is counted as skipped and as an error.
Count_FailedAlsoSkipped(st, o, t) ==
  [processed |-> st.processed + 1,
   updated |-> st.updated + (IF o.success /\ o.changed THEN 1 ELSE 0),
   errors |-> st.errors + (IF ~o.success THEN 1 ELSE 0),
   skipped |-> st.skipped + (IF t = "music" /\ ~o.changed THEN 1 ELSE 0)]

\* stats[...] += 1 after one update (the metadata tool has no 'skipped').
Count(st, o, t) ==
  [processed |-> st.processed + 1,
   updated |-> st.updated + (IF o.success /\ o.changed THEN 1 ELSE 0),
   errors |-> st.errors + (IF ~o.success THEN 1 ELSE 0),
   skipped |-> st.skipped +
               (IF t = "music" /\ o.success /\ ~o.changed THEN 1 ELSE 0)]

\* Iteration with a loop that a failure ends (a break, or an exception
\* that leaves the loop).
Iteration_StopsOnFailure(o) ==
  /\ disk' = [disk EXCEPT ![todo[pos]] = o.file]
  /\ backups' =
       IF o.backup = <<>> THEN backups
       ELSE backups \cup { [file |-> todo[pos], run |-> run,
                             content |-> o.backup[1]] }
  /\ results' = Append(results,
                  [file |-> todo[pos], success |-> o.success,
                   changed |-> o.changed, message |-> o.message,
                   log |-> o.log, genres |-> o.genres])
  /\ stats' = Count(stats, o, tool)
  /\ pos' = IF o.success THEN pos + 1 ELSE Len(todo) + 1
  /\ UNCHANGED <<renameVars, credit, artists, phase, scenario, tool, flags, todo,
                 prev, pre, run, exit_status>>

\* The effects of one loop iteration whose update returned o.  The name
\* of a backup holds the second it was made in; the runs are taken to
\* start in different seconds, so a backup never replaces an earlier one.
Iteration(o) ==
  LET i == todo[pos]
  IN  /\ disk' = [disk EXCEPT ![i] = o.file]
      /\ backups' =
           IF o.backup = <<>> THEN backups
           ELSE backups \cup { [file |-> i, run |-> run,
                                 content |-> o.backup[1]] }
      /\ results' = Append(results,
                      [file |-> i, success |-> o.success, changed |-> o.changed,
                       message |-> o.message, log |-> o.log,
                       genres |-> o.genres])
      /\ stats' = Count(stats, o, tool)
      /\ pos' = pos + 1
      /\ UNCHANGED <<renameVars, credit, artists, phase, scenario, tool, flags, todo,
                     prev, pre, run, exit_status>>

\* for nfo_file in nfo_files (format-music-file-metadata.py)
MusicNfoStep ==
  /\ phase = "running" /\ tool = "music" /\ pos <= Len(todo)
  /\ IsNfo(disk[todo[pos]])
  /\ \E fault \in NfoFaults :
       Iteration(music_update_nfo_file(disk[todo[pos]], flags.dry_run,
                                       flags.backup, fault))

\* for music_file in music_files
MusicFileStep ==
  /\ phase = "running" /\ tool = "music" /\ pos <= Len(todo)
  /\ ~IsNfo(disk[todo[pos]])
  /\ \E fault \in Faults :
       Iteration(update_music_file(disk[todo[pos]], flags.dry_run,
                                   flags.backup, fault))

\* for nfo_file in nfo_files (format-metadata.py)
MetadataNfoStep ==
  /\ phase = "running" /\ tool = "metadata" /\ pos <= Len(todo)
  /\ \E fault \in NfoFaults,
        answer \in IF flags.fetch_genres THEN Answers ELSE {NoAnswer} :
       Iteration(metadata_update_nfo_file(disk[todo[pos]], flags.dry_run,
                   flags.backup, flags.fetch_genres, flags.force_genres,
                   fault, answer))

\* Finish with a status that tells whether a file failed:
\* sys.exit(1 if stats['errors'] else 0).
Finish_ErrorsExitOne ==
  /\ phase = "running" /\ pos > Len(todo)
  /\ phase' = "done"
  /\ exit_status' = IF stats.errors > 0 THEN <<1>> ELSE <<0>>
  /\ UNCHANGED <<renameVars, credit, artists, scenario, tool, disk, flags, todo, pos,
                 stats, results, prev, pre, backups, run>>

\* The loops are over: the summary is printed, process_directory and
\* main return and the interpreter exits with status 0.
Finish ==
  /\ phase = "running" /\ pos > Len(todo)
  /\ phase' = "done"
  /\ exit_status' = <<0>>
  /\ UNCHANGED <<renameVars, credit, artists, scenario, tool, disk, flags, todo, pos,
                 stats, results, prev, pre, backups, run>>

Next ==
  \/ StartRun \/ UsageError \/ MusicNfoStep \/ MusicFileStep
  \/ MetadataNfoStep \/ Finish

\* One file of every format kind with every field content, updated and
\* updated again.
Spec == InitSingle /\ [][Next]_vars

\* One run over a directory of NumFiles files.
SpecBatch == InitBatch /\ [][Next]_vars

\* ------------------------------------- rename_episode_files, one episode
TxShow == <<"S">>

\* File names of episodes: one the patterns read an episode number
\* from, one already renamed, one whose number reads 0, one without a
\* number.
TxE01Mkv    == <<"e", "0", "1">> \o DotMkv
TxNamedMkv  == TxShow \o <<" ", "-", " ", "S", "0", "1", "E", "0", "1", " ", "-", " ", "P">> \o DotMkv
TxE00Mkv    == <<"e", "0", "0">> \o DotMkv
TxDash02Mkv == <<"x", "-", " ", "0", "2", "-">> \o DotMkv
TxXMkv      == <<"x">> \o DotMkv

MkvNames == { TxE01Mkv, TxNamedMkv, TxE00Mkv, TxDash02Mkv, TxXMkv }

\* What the catalog answers for the title of the episode: nothing, a
\* title, titles that sanitize_filename changes.
EpisodeNames == { <<>>, <<"P">>, <<"P", "?">>, <<"P", ".">> }

\* A file left in the directory under the name the .nfo file is to get.
TxStaleNfo == TxShow \o <<" ", "-", " ", "S", "0", "1", "E", "0", "1", " ", "-", " ", "P">> \o DotNfo

\* The renames of one episode: the mkv file and up to three associated
\* files.
FailPoints == 0..(Len(AssociatedExts) + 1)

\* A season directory with one mkv file, any of its associated files and
\* possibly a file left from before; the mode of the run and whether
\* rename replaces an existing file (POSIX) or raises (Windows).
InitRename ==
  /\ credit = <<>>
  /\ artists = <<>>
  /\ phase = "idle"
  /\ scenario = "none"
  /\ tool = "rename"
  /\ disk = <<>>
  /\ flags = <<>>
  /\ todo = <<>>
  /\ pos = 0
  /\ stats = <<>>
  /\ results = <<>>
  /\ prev = <<>>
  /\ pre = <<>>
  /\ backups = {}
  /\ run = 0
  /\ exit_status = <<>>
  /\ \E mkv \in MkvNames, present \in SUBSET (1..Len(AssociatedExts)),
        stale \in SUBSET {TxStaleNfo}, dry_run \in BOOLEAN, posix \in BOOLEAN :
       /\ season_dir =
            { Entry(mkv, mkv) }
              \cup { Entry(stem(mkv) \o AssociatedExts[i],
                           stem(mkv) \o AssociatedExts[i]) : i \in present }
              \cup { Entry(n, n) : n \in stale }
       /\ episode = [mkv_file |-> mkv, show_name |-> TxShow, season_num |-> 1,
                     dry_run |-> dry_run, posix |-> posix]
  /\ season_before = season_dir
  /\ episode_state = "found"

\* The body of the loop over the mkv files, for one file: the episode
\* number, the title, the new names, the renames.
RenameEpisode ==
  /\ episode_state = "found"
  /\ \E episode_name \in EpisodeNames, fail_at \in FailPoints :
       LET episode_num == extract_episode_number(episode.mkv_file)
           num == IF episode_num = <<>> THEN 0 ELSE episode_num[1]
           new_base == NewBase(episode.show_name, episode.season_num, num,
                               episode_name)
           associated_files == find_associated_files(season_dir, episode.mkv_file)
           done == RenameFiles(season_dir, episode.mkv_file, associated_files,
                               new_base, episode.posix, fail_at)
       IN  IF num = 0 \/ episode_name = <<>>
           THEN /\ episode_state' = "skipped"
                /\ UNCHANGED <<season_dir, episode>>
           ELSE /\ episode' = [mkv_file |-> episode.mkv_file,
                               show_name |-> episode.show_name,
                               season_num |-> episode.season_num,
                               dry_run |-> episode.dry_run,
                               posix |-> episode.posix,
                               new_base |-> new_base,
                               associated_files |-> associated_files]
                /\ IF episode.mkv_file = new_base \o DotMkv
                   THEN /\ episode_state' = "already"
                        /\ UNCHANGED season_dir
                   ELSE IF episode.dry_run
                   THEN /\ episode_state' = "previewed"
                        /\ UNCHANGED season_dir
                   ELSE /\ season_dir' = done.dir
                        /\ episode_state' =
                             IF done.raised THEN "failed" ELSE "renamed"
  /\ UNCHANGED <<credit, artists, phase, scenario, tool, disk, flags, todo, pos,
                 stats, results, prev, pre, backups, run, exit_status,
                 season_before>>

NextRename == RenameEpisode

SpecRename == InitRename /\ [][NextRename]_vars

\* ---------------------------------------------------------------- claims
\* The calls of one update, as a set.
Entries(log) == { log[n] : n \in 1..Len(log) }

\* The calls of an update that change a field in memory, copy the file
\* or write it (the other calls are the requests to MusicBrainz).
ChangeCalls ==
  {"set_artist", "set_artist_failed", "set_albumartist",
   "set_albumartist_failed", "copy", "copy_failed", "write", "write_failed"}

\* The backups of file i made by the current run.
ThisRunBackups(i) == { b \in backups : b.file = i /\ b.run = run }

\* The backup the current run makes of file i: its contents at the start.
BackupOfPre(i) == [file |-> i, run |-> run, content |-> pre[i]]

\* A tag field of f holds a value whose normal form differs from it.
PendingField(f, name) ==
  /\ Truthy(CurrentField(f, name))
  /\ would_change(f.kind, CurrentField(f, name),
                  parse_artists(CurrentField(f, name)))

\* File f has a pending artist / album-artist change for tool t.
ArtistPending(f, t) ==
  CASE f.kind = "nfo" /\ t = "music" ->
         \/ \E n \in 1..Len(f.artist) : NfoTextChanges(f.artist[n])
         \/ \E n \in 1..Len(f.albumartist) : NfoTextChanges(f.albumartist[n])
    [] f.kind = "nfo" /\ t = "metadata" ->
         \E n \in 1..Len(f.artist) : MdTextChanges(f.artist[n])
    [] f.kind \in {"mp4", "vorbis", "id3"} ->
         PendingField(f, "artist") \/ PendingField(f, "albumartist")
    [] OTHER -> FALSE

\* C1 as stated: whenever the update of a file returned 'Updated
\* successfully', the update that follows it immediately returns 'No
\* changes needed', changes no field, copies and writes nothing and
\* leaves the file as it was, whatever the command line of the second
\* update.
C1_IdempotentAnyFlags ==
  (prev # <<>> /\ prev[1].message = "Updated successfully" /\ results # <<>>)
    => /\ results[1].message = "No changes needed"
       /\ Entries(results[1].log) \cap ChangeCalls = {}
       /\ disk = pre

\* C1 as amended: for every format kind and every artist / album-artist
\* value, whenever the update of a file returned 'Updated successfully',
\* an update that follows it immediately without genre fetching finds no
\* field to change, returns 'No changes needed', makes no backup and
\* writes nothing.
C1_Idempotent ==
  (/\ prev # <<>> /\ prev[1].message = "Updated successfully"
   /\ results # <<>> /\ ~flags.fetch_genres)
    => /\ results[1].message = "No changes needed"
       /\ ~results[1].changed
       /\ Entries(results[1].log) \cap ChangeCalls = {}
       /\ disk = pre
       /\ ThisRunBackups(1) = {}

\* A Vorbis file whose one credit was split into two values by the
\* first update has been updated again.
C1_Witness ==
  /\ prev # <<>> /\ prev[1].message = "Updated successfully"
  /\ results # <<>> /\ results[1].message = "No changes needed"
  /\ disk[1].kind = "vorbis" /\ Len(disk[1].artist) = 2

\* C2: in a run with backups that is no preview, every write to a file
\* (completed or failed) comes after the completed copy of that file, whose
\* contents are those the file had before; and when the copy raises, no
\* write is made, the file is as it was and its outcome is a failure.
C2_BackupBeforeWrite ==
  \A k \in 1..Len(results) :
    (flags.backup /\ ~flags.dry_run) =>
      /\ \A n \in 1..Len(results[k].log) :
           results[k].log[n] \in {"write", "write_failed"} =>
             /\ \E m \in 1..(n - 1) : results[k].log[m] = "copy"
             /\ BackupOfPre(results[k].file) \in backups
      /\ "copy_failed" \in Entries(results[k].log) =>
           /\ Entries(results[k].log) \cap {"write", "write_failed"} = {}
           /\ ~results[k].success
           /\ disk[results[k].file] = pre[results[k].file]

\* The copy of an MP4 file raised after its artist was set in memory.
C2_Witness ==
  /\ flags.backup /\ ~flags.dry_run /\ results # <<>>
  /\ results[1].log = <<"set_artist", "copy_failed">>
  /\ ~results[1].success /\ disk = pre

\* C3: in a preview, every file with a pending artist change is reported
\* 'Would be updated (dry run)' with changed = True, is left as it was and
\* gets no backup.
C3_Preview ==
  \A k \in 1..Len(results) :
    (flags.dry_run /\ ArtistPending(pre[results[k].file], tool)) =>
      /\ results[k].message = "Would be updated (dry run)"
      /\ results[k].success /\ results[k].changed
      /\ disk[results[k].file] = pre[results[k].file]
      /\ ThisRunBackups(results[k].file) = {}

\* The files of the directory that have no result in the current run.
Unprocessed ==
  { i \in 1..Len(disk) : \A k \in 1..Len(results) : results[k].file # i }

\* C4 as stated, for the music-file updater: during and after a run, a
\* processed file has exactly one backup made by the run, equal to its
\* contents before the run, if it had a pending change, the run is no
\* preview and backups are enabled; otherwise the run made no backup of
\* it.
C4_BackupIffPending ==
  tool = "music" =>
    /\ \A k \in 1..Len(results) :
         ThisRunBackups(results[k].file) =
           IF /\ ArtistPending(pre[results[k].file], tool)
              /\ ~flags.dry_run /\ flags.backup
           THEN {BackupOfPre(results[k].file)} ELSE {}
    /\ \A i \in Unprocessed : ThisRunBackups(i) = {}

\* C4 as amended: a processed file has exactly one backup made by the
\* run, equal to its contents before the run, if it had a pending change,
\* the run is no preview, backups are enabled and neither an adapter
\* write nor the copy itself raised; in every other case (unchanged file,
\* preview, --no-backup, failure before or in the copy, file not
\* processed) the run made no backup of it.
C4_BackupIffReached ==
  tool = "music" =>
    /\ \A k \in 1..Len(results) :
         ThisRunBackups(results[k].file) =
           IF /\ ArtistPending(pre[results[k].file], tool)
              /\ ~flags.dry_run /\ flags.backup
              /\ Entries(results[k].log) \cap
                   {"set_artist_failed", "set_albumartist_failed",
                    "copy_failed"} = {}
           THEN {BackupOfPre(results[k].file)} ELSE {}
    /\ \A i \in Unprocessed : ThisRunBackups(i) = {}

\* A run over three files is over: one was updated and has its backup,
\* one needed no change and has none, one has its backup although its
\* save failed.
C4_Witness ==
  /\ tool = "music" /\ phase = "done" /\ flags.backup /\ Len(results) = 3
  /\ \E k \in 1..3 :
       /\ results[k].message = "Updated successfully"
       /\ ThisRunBackups(results[k].file) = {BackupOfPre(results[k].file)}
  /\ \E k \in 1..3 :
       /\ results[k].message = "No changes needed"
       /\ ThisRunBackups(results[k].file) = {}
  /\ \E k \in 1..3 :
       /\ "write_failed" \in Entries(results[k].log)
       /\ ThisRunBackups(results[k].file) = {BackupOfPre(results[k].file)}

\* C5: when the adapter's write of a field fails, the file is reported as
\* failed with that field's message, the failed write is the last call of
\* the update (no later field is written, nothing is copied or saved),
\* the file on disk is as it was before the run and has no backup.
C5_AdapterFailureAborts ==
  \A k \in 1..Len(results) :
    (Entries(results[k].log) \cap
       {"set_artist_failed", "set_albumartist_failed"} # {}) =>
      /\ ~results[k].success /\ ~results[k].changed
      /\ results[k].message \in
           {"Failed to update artist", "Failed to update album artist"}
      /\ results[k].log[Len(results[k].log)] \in
           {"set_artist_failed", "set_albumartist_failed"}
      /\ Entries(results[k].log) \cap
           {"copy", "copy_failed", "write", "write_failed"} = {}
      /\ ~flags.dry_run
      /\ disk[results[k].file] = pre[results[k].file]
      /\ ThisRunBackups(results[k].file) = {}

\* The album-artist write failed after the artist write had succeeded in
\* memory.
C5_Witness ==
  /\ results # <<>>
  /\ results[1].log = <<"set_artist", "set_albumartist_failed">>
  /\ results[1].message = "Failed to update album artist"
  /\ disk = pre

\* The results of the files that were of one of the kinds at the start
\* of the run.
OfKind(kinds) ==
  { k \in 1..Len(results) : pre[results[k].file].kind \in kinds }

\* C6 as stated: a sidecar that is not well-formed XML and an audio file
\* that cannot be opened or is of no format known are reported as failed
\* and counted in errors, are left as they were and get no backup, and
\* the run goes on to the last file.
C6_UnreadableFails ==
  /\ \A k \in OfKind({"badxml", "corrupt", "unknown"}) :
       /\ ~results[k].success
       /\ disk[results[k].file] = pre[results[k].file]
       /\ ThisRunBackups(results[k].file) = {}
  /\ stats.errors >= Cardinality(OfKind({"badxml", "corrupt", "unknown"}))
  /\ phase = "done" => Len(results) = Len(todo)

\* C6 as amended: a sidecar that is not well-formed XML and an audio file
\* whose opening raises are reported as failed and counted in errors; an
\* audio file of no format known is reported as a success, 'Unsupported
\* file format', and counted in skipped; all of them are left as they were
\* and get no backup, and the run goes on to the last file.
C6_UnreadableOutcome ==
  /\ \A k \in OfKind({"badxml", "corrupt"}) :
       /\ ~results[k].success /\ ~results[k].changed
       /\ disk[results[k].file] = pre[results[k].file]
       /\ ThisRunBackups(results[k].file) = {}
  /\ \A k \in OfKind({"unknown"}) :
       /\ results[k].success /\ ~results[k].changed
       /\ results[k].message = "Unsupported file format"
       /\ disk[results[k].file] = pre[results[k].file]
       /\ ThisRunBackups(results[k].file) = {}
  /\ stats.errors >= Cardinality(OfKind({"badxml", "corrupt"}))
  /\ stats.skipped >= Cardinality(OfKind({"unknown"}))
  /\ phase = "done" => Len(results) = Len(todo)

\* A run went over a file of no format known, a file that does not open
\* and a sidecar that is not XML, and is over.
C6_Witness ==
  /\ phase = "done" /\ Len(results) = 3
  /\ OfKind({"badxml"}) # {} /\ OfKind({"corrupt"}) # {}
  /\ OfKind({"unknown"}) # {}
  /\ stats.errors = 2 /\ stats.skipped = 1

JoinTokens ==
  { [tok |-> <<"f","e","a","t">>, ic |-> TRUE],
    [tok |-> <<"f","e","a","t",".">>, ic |-> TRUE],
    [tok |-> <<"f","t">>, ic |-> TRUE],
    [tok |-> <<"f","t",".">>, ic |-> TRUE],
    [tok |-> <<"f","e","a","t","u","r","i","n","g">>, ic |-> TRUE],
    [tok |-> <<"&">>, ic |-> FALSE],
    [tok |-> <<"a","n","d">>, ic |-> TRUE] }

\* Token t occurs at index i of s with whitespace on both sides.
Bounded(s, i, t) ==
  /\ i > 1 /\ i + Len(t.tok) <= Len(s)
  /\ IsSpace(s[i - 1])
  /\ LiteralAt(s, i, t.tok, t.ic)
  /\ IsSpace(s[i + Len(t.tok)])

\* s has no whitespace-bounded occurrence of a join token.
NoJoinToken(s) ==
  \A t \in JoinTokens, i \in 1..Len(s) : ~Bounded(s, i, t)

\* The character at index k is a comma or part of a whitespace-bounded
\* occurrence of a join token.
IsCut(s, k) ==
  \/ s[k] = ","
  \/ \E t \in JoinTokens, i \in 1..k :
       Bounded(s, i, t) /\ k < i + Len(t.tok)

\* s from index i on, cut at every cut character; cur is the piece begun.
RECURSIVE CutFrom(_, _, _)
CutFrom(s, i, cur) ==
  IF i > Len(s) THEN <<cur>>
  ELSE IF IsCut(s, i) THEN <<cur>> \o CutFrom(s, i + 1, <<>>)
  ELSE CutFrom(s, i + 1, Append(cur, s[i]))

\* The trimmed non-empty pieces of s, in order.
RECURSIVE Trimmed(_)
Trimmed(pieces) ==
  IF pieces = <<>> THEN <<>>
  ELSE (IF strip(Head(pieces)) = <<>> THEN <<>> ELSE <<strip(Head(pieces))>>)
         \o Trimmed(Tail(pieces))

CutPieces(s) == Trimmed(CutFrom(s, 1, <<>>))

\* C8: for every credit string, parse_artists returns the trimmed
\* non-empty pieces of the string cut at every whitespace-bounded join
\* token and at every comma, in order and with duplicates.
C8_CutAtEverySeparator ==
  (phase = "parsed" /\ credit # None) => artists = CutPieces(credit)

\* C9: parse_artists of the empty and of the absent credit is the empty
\* list, and no name parse_artists returns is empty or only whitespace.
C9_NoEmptyName ==
  phase = "parsed" =>
    /\ credit \in {None, <<>>} => artists = <<>>
    /\ \A k \in 1..Len(artists) :
         /\ artists[k] # <<>>
         /\ \E n \in 1..Len(artists[k]) : ~IsSpace(artists[k][n])

\* "x , , x" was parsed: the pieces between and around the commas that
\* hold nothing were dropped, the name that comes twice was kept twice.
C9_Witness ==
  /\ phase = "parsed"
  /\ credit = <<"x", " ", ",", " ", ",", " ", "x">>
  /\ artists = << <<"x">>, <<"x">> >>

\* C10 as stated: a credit that is not empty and has no whitespace-bounded
\* join token parses into the one-element list of the trimmed credit.
C10_NoTokenSingle ==
  (phase = "parsed" /\ credit \notin {None, <<>>} /\ NoJoinToken(credit))
    => artists = << strip(credit) >>

\* C10 as amended: a credit that holds a character other than whitespace,
\* no comma and no whitespace-bounded join token parses into the
\* one-element list of the trimmed credit.
C10_NoSeparatorSingle ==
  (/\ phase = "parsed" /\ credit # None
   /\ \E n \in 1..Len(credit) : ~IsSpace(credit[n])
   /\ \A n \in 1..Len(credit) : credit[n] # ","
   /\ NoJoinToken(credit))
    => artists = << strip(credit) >>

\* " xandy And" was parsed: the and inside the word and the And at the
\* end, which no whitespace follows, cut nothing.
C10_Witness ==
  /\ phase = "parsed"
  /\ credit = <<" ", "x", "a", "n", "d", "y", " ", "A", "n", "d">>
  /\ artists = << <<"x", "a", "n", "d", "y", " ", "A", "n", "d">> >>

\* C11: normalization is idempotent: every name parse_artists returns
\* for a credit parses into the one-element list of that name, so parsing
\* the names again gives the same names in the same order.
C11_ReparseStable ==
  phase = "parsed" =>
    \A k \in 1..Len(artists) : parse_artists(artists[k]) = << artists[k] >>

\* "x & & x" was parsed: the second name begins with a join token and
\* still parses into itself.
C11_Witness ==
  /\ phase = "parsed"
  /\ credit = <<"x", " ", "&", " ", "&", " ", "x">>
  /\ artists = << <<"x">>, <<"&", " ", "x">> >>
  /\ parse_artists(artists[2]) = << artists[2] >>

\* d is empty for the empty list and the one name for a one-element
\* list, and has no ';' at either end and no two ';' in a row.
WellDelimited(list, d) ==
  /\ list = <<>> => d = <<>>
  /\ Len(list) = 1 => d = list[1]
  /\ d # <<>> => d[1] # ";" /\ d[Len(d)] # ";"
  /\ \A i \in 1..(Len(d) - 1) : ~(d[i] = ";" /\ d[i + 1] = ";")

\* C12 as stated: for every credit string, the names of parse_artists
\* joined with ';' have no leading, trailing or doubled ';', are the
\* single name unchanged for a one-element list and the empty text for
\* the empty list.
C12_WellDelimited ==
  phase = "parsed" =>
    WellDelimited(artists, format_artists_to_semicolon(artists))

\* C12 as amended: the same for every credit string that holds no ';'.
C12_WellDelimitedNoSemicolon ==
  (phase = "parsed" /\ credit # None
   /\ \A n \in 1..Len(credit) : credit[n] # ";")
    => WellDelimited(artists, format_artists_to_semicolon(artists))

\* "x ft. x &" was parsed into two names and joined into "x;x &".
C12_Witness ==
  /\ phase = "parsed"
  /\ credit = <<"x", " ", "f", "t", ".", " ", "x", " ", "&">>
  /\ Len(artists) = 2
  /\ format_artists_to_semicolon(artists) = <<"x", ";", "x", " ", "&">>

\* The requests to MusicBrainz an update can make, answered or not.
LookupCalls == {"search", "search_failed", "get_genres", "get_genres_failed"}

\* The trigger of C13 read to the letter: no genre element, every genre
\* element without text, the one genre is exactly "Music", or the force
\* flag.
TriggerAsStated(g, force) ==
  \/ force
  \/ g = <<>>
  \/ \A i \in 1..Len(g) : g[i].text = <<>>
  \/ Len(g) = 1 /\ g[1].text = Music

\* The same with texts compared after trimming, the placeholder in any
\* letter case.
TriggerTrimmed(g, force) ==
  \/ force
  \/ g = <<>>
  \/ \A i \in 1..Len(g) : strip(g[i].text) = <<>>
  \/ Len(g) = 1 /\ lower(strip(g[1].text)) = lower(Music)

\* Result k of a sidecar made a request only if genre fetching is on and
\* the trigger held of the genres the file had; without that it made no
\* request, got no genres and left the genre elements of the file (where
\* the file is still a document) as they were.
LookupOnlyWhen(k, triggered) ==
  /\ Entries(results[k].log) \cap LookupCalls # {} =>
       flags.fetch_genres /\ triggered
  /\ ~(flags.fetch_genres /\ triggered) =>
       /\ Entries(results[k].log) \cap LookupCalls = {}
       /\ results[k].genres = <<>>
       /\ disk[results[k].file].kind = "nfo" =>
            disk[results[k].file].genre = pre[results[k].file].genre

\* C13 as stated: the update of a sidecar makes a lookup only when genre
\* fetching is enabled and the document has no genre element, or every
\* genre element is empty, or the only genre is the literal text "Music",
\* or the force flag is set; in every other case it makes no lookup and
\* leaves the genre elements unchanged.
C13_LookupOnlyAsStated ==
  \A k \in 1..Len(results) :
    (tool = "metadata" /\ pre[results[k].file].kind = "nfo") =>
      LookupOnlyWhen(k, TriggerAsStated(pre[results[k].file].genre,
                                        flags.force_genres))

\* C13 as amended: the same with "empty" for a genre element that has no
\* text or only whitespace, and the placeholder "Music" compared without
\* regard to letter case and to whitespace around it.
C13_LookupOnlyTrimmed ==
  \A k \in 1..Len(results) :
    (tool = "metadata" /\ pre[results[k].file].kind = "nfo") =>
      LookupOnlyWhen(k, TriggerTrimmed(pre[results[k].file].genre,
                                       flags.force_genres))

\* Without the force flag, a sidecar whose only genre was "music " was
\* looked up and got the genres returned.
C13_Witness ==
  /\ tool = "metadata" /\ flags.fetch_genres /\ ~flags.force_genres
  /\ results # <<>>
  /\ pre[1].genre = <<Genre(<<"m","u","s","i","c"," ">>, TRUE)>>
  /\ "get_genres" \in Entries(results[1].log)
  /\ results[1].message = "Updated successfully"
  /\ disk[1].genre = <<Genre(Rock, TRUE), Genre(Pop, TRUE)>>

\* C14: when an update that is no preview got a non-empty list of genres
\* from the lookup and neither its copy nor its write raised, the genre
\* elements of the sidecar afterwards are exactly the genres returned,
\* one element each and in that order, wherever the earlier elements were
\* in the tree, and the outcome is 'Updated successfully'.
C14_GenresReplaced ==
  \A k \in 1..Len(results) :
    (/\ tool = "metadata" /\ ~flags.dry_run
     /\ results[k].genres # <<>>
     /\ Entries(results[k].log) \cap {"copy_failed", "write_failed"} = {})
      => /\ results[k].message = "Updated successfully"
         /\ results[k].success /\ results[k].changed
         /\ disk[results[k].file].genre = NewGenres(results[k].genres)

\* C15: an update of a sidecar in which the identifier search or the
\* genre fetch raised got no genres and left the genre elements as they
\* were; and unless its copy or its write raised, it did not fail: its
\* outcome is the one of the artist normalization alone, which was
\* applied to the file.
C15_LookupErrorNotFatal ==
  \A k \in 1..Len(results) :
    (/\ tool = "metadata"
     /\ Entries(results[k].log) \cap {"search_failed", "get_genres_failed"} # {})
      => LET i == results[k].file
         IN  /\ results[k].genres = <<>>
             /\ disk[i].kind = "nfo" => disk[i].genre = pre[i].genre
             /\ Entries(results[k].log) \cap {"copy_failed", "write_failed"} = {}
                  => /\ results[k].success
                     /\ results[k].changed = ArtistPending(pre[i], tool)
                     /\ results[k].message =
                          IF ~ArtistPending(pre[i], tool) THEN "No changes needed"
                          ELSE IF flags.dry_run THEN "Would be updated (dry run)"
                          ELSE "Updated successfully"
                     /\ disk[i].artist =
                          IF flags.dry_run THEN pre[i].artist
                          ELSE [n \in 1..Len(pre[i].artist) |->
                                  MdNewText(pre[i].artist[n])]

\* The genre fetch of a sidecar with the artist "x & y" raised: the
\* artist was rewritten to "x;y", the genre stayed, the update succeeded.
C15_Witness ==
  /\ tool = "metadata" /\ results # <<>>
  /\ "get_genres_failed" \in Entries(results[1].log)
  /\ pre[1].artist = <<TxAmpY>>
  /\ disk[1].artist = << <<"x", ";", "y">> >>
  /\ pre[1].genre # <<>> /\ disk[1].genre = pre[1].genre
  /\ results[1].message = "Updated successfully"

\* C16 as stated: whatever the command line and whatever the outcomes
\* of the files, a process that has exited has exited with status 0.
C16_AlwaysExitsZero ==
  exit_status # <<>> => exit_status = <<0>>

\* C16 as amended: for every command line main accepts and whatever the
\* outcomes of the files, the process exits with status 0 (so a failed
\* file shows only in the messages and in the count of errors); for
\* --force without --fetch-genres format-metadata.py exits with status 2
\* and processes no file.
C16_ExitsZeroUnlessUsage ==
  /\ (exit_status # <<>> /\ (flags.force_genres => flags.fetch_genres))
       => exit_status = <<0>>
  /\ (tool = "metadata" /\ run > 0
      /\ flags.force_genres /\ ~flags.fetch_genres)
       => exit_status = <<2>> /\ results = <<>> /\ disk = pre

\* A run whose one file failed is over and has exited with status 0.
C16_Witness ==
  /\ phase = "done" /\ exit_status = <<0>>
  /\ stats.errors = 1 /\ results # <<>> /\ ~results[1].success

\* The calls of the adapter that set a field, and those that failed.
AdapterCalls ==
  {"set_artist", "set_albumartist", "set_artist_failed",
   "set_albumartist_failed"}

AdapterFailures == {"set_artist_failed", "set_albumartist_failed"}

\* Result k is of an audio file the music-file updater could open.
MusicFileResult(k) ==
  tool = "music" /\ pre[results[k].file].kind \in {"mp4", "vorbis", "id3"}

\* C17 as stated: in a run with backups that is no preview, every write
\* of the adapter to a field of a file comes after the completed copy of
\* the file, so a file whose adapter write failed has the backup of its
\* contents before the run.
C17_BackupBeforeAdapterWrite ==
  \A k \in 1..Len(results) :
    (MusicFileResult(k) /\ flags.backup /\ ~flags.dry_run) =>
      /\ \A n \in 1..Len(results[k].log) :
           results[k].log[n] \in AdapterCalls =>
             \E m \in 1..(n - 1) : results[k].log[m] = "copy"
      /\ Entries(results[k].log) \cap AdapterFailures # {} =>
           BackupOfPre(results[k].file) \in backups

\* C17 as amended: in a run with backups that is no preview, the copy of
\* a file with a pending change is made after the adapter has set the
\* changed fields in memory and before the file is saved, so a file whose
\* save failed has the backup of its contents before the run; a file
\* whose adapter write failed has no backup and is as it was.
C17_BackupBeforeSave ==
  \A k \in 1..Len(results) :
    (MusicFileResult(k) /\ flags.backup /\ ~flags.dry_run) =>
      /\ \A n \in 1..Len(results[k].log) :
           results[k].log[n] \in {"copy", "copy_failed"} =>
             /\ \A m \in 1..Len(results[k].log) :
                  results[k].log[m] \in AdapterCalls => m < n
             /\ \A m \in 1..Len(results[k].log) :
                  results[k].log[m] \in {"write", "write_failed"} => n < m
      /\ Entries(results[k].log) \cap {"write", "write_failed"} # {} =>
           "copy" \in Entries(results[k].log)
      /\ "write_failed" \in Entries(results[k].log) =>
           /\ ~results[k].success
           /\ ThisRunBackups(results[k].file) = {BackupOfPre(results[k].file)}
      /\ Entries(results[k].log) \cap AdapterFailures # {} =>
           /\ ThisRunBackups(results[k].file) = {}
           /\ disk[results[k].file] = pre[results[k].file]

\* Both fields of a file were set in memory, the file was copied, and
\* the save raised: the file failed and has its backup.
C17_Witness ==
  /\ tool = "music" /\ flags.backup /\ ~flags.dry_run /\ results # <<>>
  /\ results[1].log = <<"set_artist", "set_albumartist", "copy", "write_failed">>
  /\ ~results[1].success
  /\ BackupOfPre(1) \in backups

\* The names parsed from all the values of a field, in order.
RECURSIVE ParsedAll(_)
ParsedAll(values) ==
  IF values = <<>> THEN <<>>
  ELSE parse_artists(Head(values)) \o ParsedAll(Tail(values))

\* The native list of field name of f is the list parsed from it.
NativeEqual(f, name) == ParsedAll(Field(f, name)) = Field(f, name)

\* C18: for a Vorbis-comment file, the update reports that nothing needs
\* to change exactly when, for the artist and for the album-artist field,
\* the list of names parsed from the field equals, element for element
\* and in order, the list of all the values the field holds.
C18_NativeListCompared ==
  \A k \in 1..Len(results) :
    (tool = "music" /\ pre[results[k].file].kind = "vorbis") =>
      ((results[k].message = "No changes needed")
         <=> (/\ NativeEqual(pre[results[k].file], "artist")
              /\ NativeEqual(pre[results[k].file], "albumartist")))

\* C20: after an update of a Vorbis-comment file that is no preview and
\* returned 'Updated successfully', every value the artist or the
\* album-artist field held before that has no comma and no
\* whitespace-bounded join token is, as it was or trimmed, still among
\* the values of the field.
C20_NoArtistDiscarded ==
  \A k \in 1..Len(results) :
    (/\ tool = "music" /\ pre[results[k].file].kind = "vorbis"
     /\ ~flags.dry_run /\ results[k].message = "Updated successfully")
      => \A name \in {"artist", "albumartist"} :
           \A n \in 1..Len(Field(pre[results[k].file], name)) :
             LET v == Field(pre[results[k].file], name)[n]
             IN  (NoJoinToken(v) /\ \A c \in 1..Len(v) : v[c] # ",")
                   => \E j \in 1..Len(Field(disk[results[k].file], name)) :
                        Field(disk[results[k].file], name)[j] \in {v, strip(v)}

\* The texts of a sequence of elements that have a text, trimmed.
TrimmedTexts(texts) ==
  { strip(texts[n]) : n \in { j \in 1..Len(texts) : texts[j] # <<>> } }

\* The non-empty values the update of f by tool t inspects: the trimmed
\* texts of the artist (and, in the music-file updater, album-artist)
\* elements of a sidecar, the value read from each of the two tag fields.
Inspected(f, t) ==
  CASE f.kind = "nfo" /\ t = "music" ->
         TrimmedTexts(f.artist) \cup TrimmedTexts(f.albumartist)
    [] f.kind = "nfo" /\ t = "metadata" -> TrimmedTexts(f.artist)
    [] OTHER ->
         { v \in {CurrentField(f, "artist"), CurrentField(f, "albumartist")} :
             Truthy(v) }

\* The serialized form of the list parsed from v (the native list for
\* Vorbis comments, the names joined with ';' elsewhere) differs from v.
SerializedDiffers(kind, v) ==
  IF kind = "vorbis" THEN parse_artists(v) # <<v>>
  ELSE join(<<";">>, parse_artists(v)) # v

\* Result k marks its file as changed if differs, and otherwise is 'No
\* changes needed' with nothing set, copied or written and no backup.
ChangedIff(k, differs) ==
  IF differs THEN results[k].message # "No changes needed"
  ELSE /\ results[k].message = "No changes needed"
       /\ results[k].success /\ ~results[k].changed
       /\ Entries(results[k].log) \cap ChangeCalls = {}
       /\ ThisRunBackups(results[k].file) = {}
       /\ disk[results[k].file] = pre[results[k].file]

\* C19 as stated, for the runs without genre fetching: a file is marked
\* as changed if and only if the serialized form of the list parsed from
\* at least one inspected non-empty value differs from that value;
\* otherwise its outcome is 'No changes needed' and it is neither backed
\* up nor written.
C19_ChangedIffDiffers ==
  \A k \in 1..Len(results) :
    (/\ pre[results[k].file].kind \in {"nfo", "mp4", "vorbis", "id3"}
     /\ ~flags.fetch_genres)
      => ChangedIff(k, \E v \in Inspected(pre[results[k].file], tool) :
                         SerializedDiffers(pre[results[k].file].kind, v))

\* C19 as amended, for sidecars and for MP4 and ID3 files in the runs
\* without genre fetching: a file is marked as changed if and only if
\* for at least one inspected non-empty value the names parsed from it,
\* joined with ';', differ from the value and, in format-metadata.py,
\* are more than one; otherwise its outcome is 'No changes needed' and it
\* is neither backed up nor written.
C19_ChangedIffCounted ==
  \A k \in 1..Len(results) :
    (/\ pre[results[k].file].kind \in {"nfo", "mp4", "id3"}
     /\ ~flags.fetch_genres)
      => ChangedIff(k, \E v \in Inspected(pre[results[k].file], tool) :
                         /\ join(<<";">>, parse_artists(v)) # v
                         /\ tool = "metadata" => Len(parse_artists(v)) > 1)

\* format-metadata.py has processed a sidecar whose artist is "x,": the
\* one name parsed from it, "x", differs from the text, and the file was
\* left as it was.
C19_Witness ==
  /\ tool = "metadata" /\ ~flags.fetch_genres /\ results # <<>>
  /\ pre[1].artist = <<TxComma>>
  /\ parse_artists(TxComma) = <<Tx>>
  /\ results[1].message = "No changes needed"
  /\ disk = pre

\* C21: with genre fetching on and the force flag off, when the update
\* before replaced the genres of the sidecar by what the lookup returned
\* and a lookup of this update, if one is made, returns the same genres,
\* this update replaces nothing, makes no backup and reports 'No changes
\* needed'.
C21_SecondFetchIdle ==
  (/\ tool = "metadata" /\ flags.fetch_genres /\ ~flags.force_genres
   /\ prev # <<>> /\ prev[1].message = "Updated successfully"
   /\ prev[1].genres # <<>>
   /\ results # <<>>
   /\ Entries(results[1].log) \cap LookupCalls # {} =>
        /\ "get_genres" \in Entries(results[1].log)
        /\ results[1].genres = prev[1].genres)
    => /\ results[1].message = "No changes needed"
       /\ Entries(results[1].log) \cap ChangeCalls = {}
       /\ ThisRunBackups(1) = {}
       /\ disk = pre

\* C22: update_music_file creates and fills no field: an artist or
\* album-artist field that was absent before the run is absent after it,
\* whatever was done to the other field, and a file that had no tag
\* container has none afterwards.
C22_NoFieldCreated ==
  \A k \in 1..Len(results) :
    MusicFileResult(k) =>
      /\ \A name \in {"artist", "albumartist"} :
           Field(pre[results[k].file], name) = <<>> =>
             Field(disk[results[k].file], name) = <<>>
      /\ ~pre[results[k].file].tags => ~disk[results[k].file].tags

\* The artist of an MP4 file that has no album artist was rewritten and
\* saved: the file still has no album artist.
C22_Witness ==
  /\ tool = "music" /\ results # <<>>
  /\ pre[1].kind = "mp4"
  /\ pre[1].artist = <<TxAmpY>> /\ pre[1].albumartist = <<>>
  /\ results[1].log = <<"set_artist", "write">>
  /\ disk[1].artist = << <<"x", ";", "y">> >> /\ disk[1].albumartist = <<>>

\* C23: in a run of the music-file updater, after each file the counters
\* satisfy processed = updated + skipped + errors, with processed the
\* number of files done; and at the end of the run processed is the
\* number of the sidecars discovered plus that of the music files
\* discovered.
C23_CountersAddUp ==
  tool = "music" =>
    /\ stats.processed = stats.updated + stats.skipped + stats.errors
    /\ stats.processed = Len(results)
    /\ phase = "done" =>
         stats.processed =
           (IF flags.update_nfo
            THEN Cardinality({ i \in 1..Len(pre) : IsNfo(pre[i]) }) ELSE 0)
           + Cardinality({ i \in 1..Len(pre) : ~IsNfo(pre[i]) })

\* A run over a sidecar and two music files is over: one file was
\* updated, one skipped and one failed.
C23_Witness ==
  /\ tool = "music" /\ phase = "done" /\ flags.update_nfo
  /\ Cardinality({ i \in 1..Len(pre) : IsNfo(pre[i]) }) = 1
  /\ stats = [processed |-> 3, updated |-> 1, errors |-> 1, skipped |-> 1]

\* C24: in execute mode of the episode renamer, renaming one episode maps
\* no two distinct existing associated files of the episode (.nfo,
\* -thumb.jpg, .jpg) to the same destination path, and after the rename
\* every associated file that existed before still exists under its own
\* new name.
C24_AssociatedKept ==
  episode_state \in {"renamed", "failed"} =>
    LET assoc == { episode.associated_files[i] :
                     i \in 1..Len(episode.associated_files) }
        dest(a) == episode.new_base \o suffix(a)
    IN  /\ \A a, b \in assoc : a # b => dest(a) # dest(b)
        /\ episode_state = "renamed" =>
             \A a \in assoc :
               \E e \in season_dir : e.content = a /\ e.name = dest(a)

============================================================================
